---- MODULE Spec2Model ----
(***************************************************************************)
(* A model of monitor.py: main() reads the configuration from the          *)
(* environment, builds a Monitor and starts it; Monitor._monitor pings the  *)
(* target forever, runs ON_DOWN when a healthy connection stops answering   *)
(* and ON_UP once HEALTHY_AFTER pings in a row have answered again.         *)
(*                                                                         *)
(* Strings of the environment are tuples of one-character strings, so that  *)
(* float() is modelled by what it parses.  A float is a record              *)
(* [k |-> "num", v2 |-> twice its value], [k |-> "nan"] or [k |-> "inf"]:    *)
(* the inputs are the decimal strings whose value is a multiple of 1/2.     *)
(***************************************************************************)
EXTENDS Integers, Sequences, FiniteSets, TLC

VARIABLES
    env,        \* os.environ: variable name -> [present, value]
    pc,         \* where the process is (see PcValues)
    err,        \* the exception that ended the process, "none" while it runs
    healthy,    \* Monitor.healthy
    successful_checks_since_down,   \* Monitor.successful_checks_since_down
    healthy_after,                  \* Monitor.healthy_after (a float)
    interval,   \* Monitor.interval (a float)
    alive,      \* the local `alive` of the current iteration
    h0,         \* history: healthy when the current iteration began
    c0,         \* history: the counter when the current iteration began
    shell,      \* history: how the command of the current iteration ended, "none" if none ran
    probes,     \* history: the outcome of every ping invoked so far
    cmds        \* history: the commands executed so far ("ON_DOWN" / "ON_UP")

vars == <<env, pc, err, healthy, successful_checks_since_down, healthy_after,
          interval, alive, h0, c0, shell, probes, cmds>>

\* ------------------------------------------------------------------ bounds

\* The loop is followed for this many pings.
MaxProbes == 9

\* ------------------------------------------------------------- environment

Unset == [present |-> FALSE, value |-> <<>>]
Val(s) == [present |-> TRUE, value |-> s]

TargetValues == {Unset, Val(<<"h">>)}
IntervalValues == {Unset, Val(<<"0", ".", "5">>), Val(<<"-", "1">>), Val(<<"a", "b", "c">>)}
HealthyAfterValues ==
    {Unset, Val(<<"1">>), Val(<<"2">>), Val(<<"3">>), Val(<<"2", ".", "5">>),
     Val(<<"0">>), Val(<<"-", "1">>), Val(<<"n", "a", "n">>), Val(<<"i", "n", "f">>),
     Val(<<"t", "w", "o">>)}
CommandValues == {Unset, Val(<<"c">>)}
LogLevelValues == {Unset, Val(<<"d", "e", "b", "u", "g">>), Val(<<"l", "o", "u", "d">>)}

EnvValues ==
    [TARGET : TargetValues, INTERVAL : IntervalValues,
     HEALTHY_AFTER : HealthyAfterValues, ON_DOWN : CommandValues,
     ON_UP : CommandValues, LOGLEVEL : LogLevelValues]

\* ---------------------------------------------------------------- float()

Num(v2) == [k |-> "num", v2 |-> v2]
NaN == [k |-> "nan", v2 |-> 0]
Inf == [k |-> "inf", v2 |-> 0]
NotAFloat == [k |-> "ValueError", v2 |-> 0]

Digits == {"0", "1", "2", "3", "4", "5", "6", "7", "8", "9"}

DigitValue(d) ==
    CASE d = "0" -> 0 [] d = "1" -> 1 [] d = "2" -> 2 [] d = "3" -> 3 [] d = "4" -> 4
      [] d = "5" -> 5 [] d = "6" -> 6 [] d = "7" -> 7 [] d = "8" -> 8 [] d = "9" -> 9

AllDigits(s) == \A i \in 1..Len(s) : s[i] \in Digits

RECURSIVE IntValue(_)
IntValue(s) ==
    IF s = <<>> THEN 0
    ELSE 10 * IntValue(SubSeq(s, 1, Len(s) - 1)) + DigitValue(s[Len(s)])

\* The position of the decimal point in s, 0 if there is none.
PointAt(s) ==
    IF \E i \in 1..Len(s) : s[i] = "." THEN CHOOSE i \in 1..Len(s) : s[i] = "." ELSE 0

\* float() of an unsigned decimal string: digits, or digits "." and one of the
\* fraction digits 0 and 5.
ParseUnsigned(s) ==
    LET p == PointAt(s) IN
    IF s = <<>> THEN NotAFloat
    ELSE IF s = <<"n", "a", "n">> THEN NaN
    ELSE IF s = <<"i", "n", "f">> THEN Inf
    ELSE IF p = 0 THEN (IF AllDigits(s) THEN Num(2 * IntValue(s)) ELSE NotAFloat)
    ELSE LET whole == SubSeq(s, 1, p - 1)
             frac == SubSeq(s, p + 1, Len(s))
         IN  IF /\ AllDigits(whole) /\ AllDigits(frac) /\ Len(whole) + Len(frac) > 0
                /\ frac \in {<<>>, <<"0">>, <<"5">>}
             THEN Num(2 * IntValue(whole) + (IF frac = <<"5">> THEN 1 ELSE 0))
             ELSE NotAFloat

\* float() made forgiving: 0.0 for a string that is no number.
ParseFloatLenient(s) ==
    LET u == ParseUnsigned(IF s # <<>> /\ s[1] = "-" THEN Tail(s) ELSE s) IN
    IF u.k = "ValueError" THEN Num(0)
    ELSE IF s # <<>> /\ s[1] = "-" /\ u.k = "num" THEN Num(0 - u.v2) ELSE u

\* float(s) for a string s.
ParseFloat(s) ==
    IF s # <<>> /\ s[1] = "-"
    THEN LET u == ParseUnsigned(Tail(s)) IN
         IF u.k = "num" THEN Num(0 - u.v2) ELSE IF u.k = "inf" THEN [k |-> "-inf", v2 |-> 0] ELSE u
    ELSE ParseUnsigned(s)

\* The defaults of os.environ.get in main.
DefaultInterval == 10
DefaultHealthyAfter == 12

\* ------------------------------------------------------ float comparisons

\* The threshold compared with > instead of >=.
CounterExceeds(c, ha) ==
    CASE ha.k = "num" -> 2 * c > ha.v2
      [] ha.k = "-inf" -> TRUE
      [] OTHER -> FALSE

\* self.successful_checks_since_down >= self.healthy_after, an int against a float;
\* every comparison with nan is false.
CounterReaches(c, ha) ==
    CASE ha.k = "num" -> 2 * c >= ha.v2
      [] ha.k = "-inf" -> TRUE
      [] OTHER -> FALSE

\* What time.sleep(secs) raises: ValueError for a negative or nan length,
\* OverflowError for an infinite one, "none" when it sleeps and returns.
SleepError(secs) ==
    CASE secs.k = "num" -> IF secs.v2 < 0 THEN "ValueError" ELSE "none"
      [] secs.k = "inf" -> "OverflowError"
      [] OTHER -> "ValueError"

\* ------------------------------------------------------------ str.upper()

LowerCase == <<"a", "b", "c", "d", "e", "f", "g", "h", "i", "j", "k", "l", "m",
               "n", "o", "p", "q", "r", "s", "t", "u", "v", "w", "x", "y", "z">>
UpperCase == <<"A", "B", "C", "D", "E", "F", "G", "H", "I", "J", "K", "L", "M",
               "N", "O", "P", "Q", "R", "S", "T", "U", "V", "W", "X", "Y", "Z">>

UpperChar(ch) ==
    IF \E i \in 1..Len(LowerCase) : LowerCase[i] = ch
    THEN UpperCase[CHOOSE i \in 1..Len(LowerCase) : LowerCase[i] = ch]
    ELSE ch

Upper(s) == [i \in 1..Len(s) |-> UpperChar(s[i])]

\* The level names getattr(logging, name) finds.
LoggingLevels ==
    {<<"C", "R", "I", "T", "I", "C", "A", "L">>, <<"F", "A", "T", "A", "L">>,
     <<"E", "R", "R", "O", "R">>, <<"W", "A", "R", "N", "I", "N", "G">>,
     <<"W", "A", "R", "N">>, <<"I", "N", "F", "O">>, <<"D", "E", "B", "U", "G">>,
     <<"N", "O", "T", "S", "E", "T">>}

\* ------------------------------------------------------------------ main()

\* os.environ.get("LOGLEVEL", "INFO").upper()
LogLevelOf(e) ==
    Upper(IF e.LOGLEVEL.present THEN e.LOGLEVEL.value ELSE <<"I", "N", "F", "O">>)

\* float(os.environ.get("INTERVAL", 10))
IntervalOf(e) ==
    IF e.INTERVAL.present THEN ParseFloat(e.INTERVAL.value) ELSE Num(2 * DefaultInterval)

\* float(os.environ.get("HEALTHY_AFTER", 12))
HealthyAfterOf(e) ==
    IF e.HEALTHY_AFTER.present THEN ParseFloat(e.HEALTHY_AFTER.value)
    ELSE Num(2 * DefaultHealthyAfter)

\* main made to look the two commands up before it starts the monitor.
MainErrorChecksCommands(e) ==
    IF LogLevelOf(e) \notin LoggingLevels THEN "AttributeError"
    ELSE IF ~e.TARGET.present THEN "KeyError"
    ELSE IF IntervalOf(e).k = "ValueError" THEN "ValueError"
    ELSE IF HealthyAfterOf(e).k = "ValueError" THEN "ValueError"
    ELSE IF ~e.ON_DOWN.present \/ ~e.ON_UP.present THEN "KeyError"
    ELSE "none"

\* The exception main raises before m.start(), "none" if it raises none: the
\* arguments of Monitor(...) are evaluated in the order they are written.
MainError(e) ==
    IF LogLevelOf(e) \notin LoggingLevels THEN "AttributeError"
    ELSE IF ~e.TARGET.present THEN "KeyError"
    ELSE IF IntervalOf(e).k = "ValueError" THEN "ValueError"
    ELSE IF HealthyAfterOf(e).k = "ValueError" THEN "ValueError"
    ELSE "none"

\* A float field of a Monitor that has not been constructed.
NoFloat == [k |-> "unset", v2 |-> 0]

PcValues ==
    {"main", "start", "probe", "branch", "shell_down", "shell_up", "sleep", "crashed",
     "start_nonblocking", "stop"}

Init ==
    /\ env \in EnvValues
    /\ pc = "main"
    /\ err = "none"
    /\ healthy = TRUE
    /\ successful_checks_since_down = 0
    /\ healthy_after = NoFloat
    /\ interval = NoFloat
    /\ alive = FALSE
    /\ h0 = TRUE
    /\ c0 = 0
    /\ shell = "none"
    /\ probes = <<>>
    /\ cmds = <<>>

\* The process ends with the exception e propagating out of main.
Raise(e) ==
    /\ pc' = "crashed"
    /\ err' = e

\* Monitor.__init__ made to start unhealthy.
MainStartsUnhealthy ==
    /\ pc = "main"
    /\ IF MainError(env) # "none"
       THEN /\ Raise(MainError(env))
            /\ UNCHANGED <<healthy, successful_checks_since_down, healthy_after, interval>>
       ELSE /\ pc' = "start"
            /\ healthy' = FALSE
            /\ interval' = IntervalOf(env)
            /\ healthy_after' = HealthyAfterOf(env)
            /\ successful_checks_since_down' = 0
            /\ err' = err
    /\ UNCHANGED <<env, alive, h0, c0, shell, probes, cmds>>

\* main() up to the call of m.start(): logging setup, Monitor.__init__.
Main ==
    /\ pc = "main"
    /\ IF MainError(env) # "none"
       THEN /\ Raise(MainError(env))
            /\ UNCHANGED <<healthy, successful_checks_since_down, healthy_after, interval>>
       ELSE /\ pc' = "start"
            /\ healthy' = TRUE
            /\ interval' = IntervalOf(env)
            /\ healthy_after' = HealthyAfterOf(env)
            /\ successful_checks_since_down' = 0
            /\ err' = err
    /\ UNCHANGED <<env, alive, h0, c0, shell, probes, cmds>>

\* m.start(): block is True, the loop is entered.
Start ==
    /\ pc = "start"
    /\ pc' = "probe"
    /\ UNCHANGED <<env, err, healthy, successful_checks_since_down, healthy_after,
                   interval, alive, h0, c0, shell, probes, cmds>>

\* ------------------------------------------------------- Monitor._is_alive

\* What subprocess.call of ping can do: return 0, return another status, raise
\* TimeoutExpired after 30 s, or raise OSError when ping cannot be started.
PingOutcomes == {"rc0", "rc1", "timeout", "oserror"}

\* The value _is_alive returns for a returncode.
IsAliveResult(o) == o = "rc0"

\* _is_alive made to catch OSError of the call and to report a failed ping.
IsAliveErrorSwallowsOSError(o) ==
    CASE o = "timeout" -> "TimeoutExpired"
      [] OTHER -> "none"

\* The exception _is_alive lets through, "none" when call returns.
IsAliveError(o) ==
    CASE o = "timeout" -> "TimeoutExpired"
      [] o = "oserror" -> "OSError"
      [] OTHER -> "none"

\* The top of an iteration: alive = self._is_alive(self.target)
IsAlive ==
    /\ pc = "probe"
    /\ Len(probes) < MaxProbes
    /\ \E o \in PingOutcomes :
        /\ probes' = Append(probes, o)
        /\ IF IsAliveError(o) # "none"
           THEN Raise(IsAliveError(o)) /\ alive' = alive
           ELSE pc' = "branch" /\ alive' = IsAliveResult(o) /\ err' = err
    /\ h0' = healthy
    /\ c0' = successful_checks_since_down
    /\ shell' = "none"
    /\ UNCHANGED <<env, healthy, successful_checks_since_down, healthy_after, interval, cmds>>

\* ------------------------------------------------------- Monitor._monitor

\* The branch conditions with the test of self.healthy left out.
DownBranchAnyFailure(h, a) == ~a
UpBranchAnySuccess(h, a) == a
\* The counter updates gone wrong: no reset on a failed ping, counting while healthy.
CounterKeptAfterFail(c) == c
CounterCountsWhileHealthy(c) == c + 1

\* if self.healthy and not alive
DownBranch(h, a) == h /\ ~a
\* elif not self.healthy and alive
UpBranch(h, a) == ~h /\ a
\* elif not self.healthy and not alive
StillDownBranch(h, a) == ~h /\ ~a

\* The increment gone wrong: a success counted twice, or not at all.
CounterCountsDouble(c) == c + 2
CounterNotCounted(c) == c

\* self.successful_checks_since_down += 1
CounterAfterSuccess(c) == c + 1
\* self.successful_checks_since_down = 0, in the branch of a failed ping while unhealthy
CounterAfterFail(c) == 0
\* The reset after ON_DOWN left out.
CounterKeptAfterDown(c) == c
\* self.successful_checks_since_down = 0, after ON_DOWN
CounterAfterDown(c) == 0
\* the else branch: a successful ping while healthy leaves the counter alone
CounterWhileHealthy(c) == c

\* The down branch made to store the new state before it starts ON_DOWN.
MonitorDownStoresFirst ==
    /\ pc = "branch"
    /\ DownBranch(healthy, alive)
    /\ healthy' = FALSE
    /\ successful_checks_since_down' = 0
    /\ IF env.ON_DOWN.present
       THEN pc' = "shell_down" /\ err' = err
       ELSE Raise("KeyError")
    /\ UNCHANGED <<env, healthy_after, interval, alive, h0, c0, shell, probes, cmds>>

\* os.environ[name]: the command to run, looked up when the branch is taken.
\* healthy -> failed ping: ON_DOWN is started, or its lookup raises KeyError.
MonitorDown ==
    /\ pc = "branch"
    /\ DownBranch(healthy, alive)
    /\ IF env.ON_DOWN.present
       THEN pc' = "shell_down" /\ err' = err
       ELSE Raise("KeyError")
    /\ UNCHANGED <<env, healthy, successful_checks_since_down, healthy_after, interval,
                   alive, h0, c0, shell, probes, cmds>>

\* unhealthy -> successful ping: count it; at the threshold become healthy and
\* start ON_UP, or raise KeyError on its lookup.
MonitorUp ==
    /\ pc = "branch"
    /\ ~DownBranch(healthy, alive)
    /\ UpBranch(healthy, alive)
    /\ successful_checks_since_down' = CounterAfterSuccess(successful_checks_since_down)
    /\ IF CounterReaches(successful_checks_since_down', healthy_after)
       THEN /\ healthy' = TRUE
            /\ IF env.ON_UP.present
               THEN pc' = "shell_up" /\ err' = err
               ELSE Raise("KeyError")
       ELSE /\ healthy' = healthy
            /\ pc' = "sleep"
            /\ err' = err
    /\ UNCHANGED <<env, healthy_after, interval, alive, h0, c0, shell, probes, cmds>>

\* unhealthy -> failed ping: the counter starts over.
MonitorStillDown ==
    /\ pc = "branch"
    /\ ~DownBranch(healthy, alive)
    /\ ~UpBranch(healthy, alive)
    /\ StillDownBranch(healthy, alive)
    /\ successful_checks_since_down' = CounterAfterFail(successful_checks_since_down)
    /\ pc' = "sleep"
    /\ UNCHANGED <<env, err, healthy, healthy_after, interval, alive, h0, c0, shell, probes, cmds>>

\* The else branch made to go straight to the next ping, as with a `continue`.
MonitorStillUpSkipsSleep ==
    /\ pc = "branch"
    /\ ~DownBranch(healthy, alive)
    /\ ~UpBranch(healthy, alive)
    /\ ~StillDownBranch(healthy, alive)
    /\ successful_checks_since_down' = CounterWhileHealthy(successful_checks_since_down)
    /\ pc' = "probe"
    /\ UNCHANGED <<env, err, healthy, healthy_after, interval, alive, h0, c0, shell, probes, cmds>>

\* healthy -> successful ping: nothing but a debug line.
MonitorStillUp ==
    /\ pc = "branch"
    /\ ~DownBranch(healthy, alive)
    /\ ~UpBranch(healthy, alive)
    /\ ~StillDownBranch(healthy, alive)
    /\ successful_checks_since_down' = CounterWhileHealthy(successful_checks_since_down)
    /\ pc' = "sleep"
    /\ UNCHANGED <<env, err, healthy, healthy_after, interval, alive, h0, c0, shell, probes, cmds>>

\* ------------------------------------------------------ Monitor._shellexec

\* What subprocess.call(command, shell=True) can do: return the command's exit
\* status (0 or not), or raise OSError when the shell cannot be started.
ShellOutcomes == {"exit0", "exit1", "oserror"}

\* _shellexec made to raise on a non-zero status, as subprocess.check_call does.
ShellexecErrorOnStatus(o) ==
    IF o = "exit0" THEN "none" ELSE IF o = "exit1" THEN "CalledProcessError" ELSE "OSError"

\* The exception _shellexec lets through for an outcome: a non-zero status is
\* logged as a warning and returned.
ShellexecError(o) == IF o = "oserror" THEN "OSError" ELSE "none"

\* ON_DOWN returns; then self.healthy = False and the counter is reset.
ShellexecDown ==
    /\ pc = "shell_down"
    /\ \E o \in ShellOutcomes :
        IF ShellexecError(o) # "none"
        THEN /\ Raise(ShellexecError(o))
             /\ shell' = o
             /\ UNCHANGED <<healthy, successful_checks_since_down, cmds>>
        ELSE /\ cmds' = Append(cmds, "ON_DOWN")
             /\ shell' = o
             /\ healthy' = FALSE
             /\ successful_checks_since_down' = CounterAfterDown(successful_checks_since_down)
             /\ pc' = "sleep"
             /\ err' = err
    /\ UNCHANGED <<env, healthy_after, interval, alive, h0, c0, probes>>

\* ON_UP returns; self.healthy was set before it was started.
ShellexecUp ==
    /\ pc = "shell_up"
    /\ \E o \in ShellOutcomes :
        IF ShellexecError(o) # "none"
        THEN /\ Raise(ShellexecError(o))
             /\ shell' = o
             /\ UNCHANGED cmds
        ELSE /\ cmds' = Append(cmds, "ON_UP")
             /\ shell' = o
             /\ pc' = "sleep"
             /\ err' = err
    /\ UNCHANGED <<env, healthy, successful_checks_since_down, healthy_after, interval,
                   alive, h0, c0, probes>>

\* sleep(self.interval), the end of an iteration.
Sleep ==
    /\ pc = "sleep"
    /\ IF SleepError(interval) # "none"
       THEN Raise(SleepError(interval))
       ELSE pc' = "probe" /\ err' = err
    /\ UNCHANGED <<env, healthy, successful_checks_since_down, healthy_after, interval,
                   alive, h0, c0, shell, probes, cmds>>

Next ==
    \/ Main
    \/ Start
    \/ IsAlive
    \/ MonitorDown
    \/ MonitorUp
    \/ MonitorStillDown
    \/ MonitorStillUp
    \/ ShellexecDown
    \/ ShellexecUp
    \/ Sleep

Spec == Init /\ [][Next]_vars

\* The process keeps taking its next step: main and the loop run in one thread
\* that nothing suspends, as long as the ping, the command and the sleep it
\* waits for come back.
FairSpec == Spec /\ WF_vars(Next)

\* ------------------------------- Monitor.start(block=False), Monitor.stop

\* start and stop made to return silently.
StartErrorSilent(block) == "none"
StopErrorSilent == "none"

\* The exception start raises for its argument block, "none" when it goes on to
\* the loop.
StartError(block) == IF ~block THEN "NotImplementedError" ELSE "none"

\* The exception stop raises.
StopError == "NotImplementedError"

\* The holder of a constructed Monitor has control: before start, or after start
\* has come back with an exception (which the holder has caught).
CallerHasMonitor ==
    /\ pc \in {"start", "crashed"}
    /\ healthy_after # NoFloat

\* The holder calls m.start(block=False).
CallStartNonBlocking ==
    /\ CallerHasMonitor
    /\ pc' = "start_nonblocking"
    /\ err' = "none"
    /\ UNCHANGED <<env, healthy, successful_checks_since_down, healthy_after,
                   interval, alive, h0, c0, shell, probes, cmds>>

\* The holder calls m.stop().
CallStop ==
    /\ CallerHasMonitor
    /\ pc' = "stop"
    /\ err' = "none"
    /\ UNCHANGED <<env, healthy, successful_checks_since_down, healthy_after,
                   interval, alive, h0, c0, shell, probes, cmds>>

\* The body of start with block False.
StartNonBlocking ==
    /\ pc = "start_nonblocking"
    /\ IF StartError(FALSE) # "none"
       THEN Raise(StartError(FALSE))
       ELSE pc' = "probe" /\ err' = err
    /\ UNCHANGED <<env, healthy, successful_checks_since_down, healthy_after,
                   interval, alive, h0, c0, shell, probes, cmds>>

\* The body of stop.
Stop ==
    /\ pc = "stop"
    /\ IF StopError # "none"
       THEN Raise(StopError)
       ELSE pc' = "start" /\ err' = err
    /\ UNCHANGED <<env, healthy, successful_checks_since_down, healthy_after,
                   interval, alive, h0, c0, shell, probes, cmds>>

\* The program, and a holder of the Monitor that also calls start(block=False)
\* and stop.
ApiNext ==
    \/ Next
    \/ CallStartNonBlocking
    \/ CallStop
    \/ StartNonBlocking
    \/ Stop

ApiSpec == Init /\ [][ApiNext]_vars

TypeOK ==
    /\ pc \in PcValues
    /\ healthy \in BOOLEAN
    /\ successful_checks_since_down \in 0..MaxProbes
    /\ Len(probes) <= MaxProbes

\* ------------------------------------------------- vocabulary of the claims

\* The loop is between two iterations: about to ping, or asleep.
Boundary == pc \in {"probe", "sleep"}

RECURSIVE Count(_, _)
Count(s, x) ==
    IF s = <<>> THEN 0 ELSE Count(Tail(s), x) + (IF Head(s) = x THEN 1 ELSE 0)

\* The number of successful pings at the end of the ping history.
RECURSIVE TrailingSuccesses(_)
TrailingSuccesses(p) ==
    IF p = <<>> \/ p[Len(p)] # "rc0" THEN 0
    ELSE 1 + TrailingSuccesses(SubSeq(p, 1, Len(p) - 1))

LastCmd == IF cmds = <<>> THEN "none" ELSE cmds[Len(cmds)]

\* A step in which a command has run to its end.
Executed(c) == cmds' = Append(cmds, c)

\* count < healthy_after and count >= healthy_after as numbers (nan excluded).
Below(c, ha) == ha.k = "inf" \/ (ha.k = "num" /\ 2 * c < ha.v2)
AtLeast(c, ha) == ha.k = "-inf" \/ (ha.k = "num" /\ 2 * c >= ha.v2)

\* healthy_after >= 1
ThresholdAtLeastOne == healthy_after.k = "inf" \/ (healthy_after.k = "num" /\ healthy_after.v2 >= 2)

\* -------------------------------------------------------------------- C1

\* C1: ON_DOWN runs exactly once for each change of healthy from true to false
\* (every such change is the step that follows one completed ON_DOWN, and every
\* completed ON_DOWN is followed by that change), it runs at most once in an
\* iteration, and never in an iteration that began with healthy = FALSE.
C1_OnDownOncePerOutage ==
    [][ /\ (healthy /\ ~healthy') <=> Executed("ON_DOWN")
        /\ Executed("ON_DOWN") => (h0 /\ shell = "none" /\ ~alive)
        /\ (pc = "shell_down" \/ pc' = "shell_down") => h0 ]_vars

\* The second outage of a run: ON_DOWN has run for the second time.
C1_Witness ==
    /\ pc = "sleep" /\ ~healthy /\ shell # "none"
    /\ Count(cmds, "ON_DOWN") = 2

\* -------------------------------------------------------------------- C2

\* C2: ON_UP runs only in an iteration that began unhealthy, whose ping succeeded
\* and whose incremented counter reached healthy_after; no earlier iteration of
\* the outage had reached it (while unhealthy between iterations the counter is
\* below the threshold or was never incremented); at an iteration boundary ON_UP
\* has run once for every outage that is over and not for the one in progress.
C2_OnUpOncePerOutage ==
    /\ [][ Executed("ON_UP") =>
             /\ ~h0 /\ alive /\ shell = "none"
             /\ successful_checks_since_down = c0 + 1
             /\ AtLeast(successful_checks_since_down, healthy_after)
             /\ healthy /\ healthy' ]_vars
    /\ [](Boundary =>
           /\ healthy => Count(cmds, "ON_UP") = Count(cmds, "ON_DOWN")
           /\ ~healthy => Count(cmds, "ON_UP") + 1 = Count(cmds, "ON_DOWN")
           /\ (~healthy /\ successful_checks_since_down > 0)
                 => ~AtLeast(successful_checks_since_down, healthy_after)
           /\ (pc = "sleep" /\ h0) => LastCmd # "ON_UP" \/ shell = "none")

\* The second recovery of a run, followed by a successful ping while healthy.
C2_Witness ==
    /\ pc = "sleep" /\ healthy /\ h0 /\ alive
    /\ Count(cmds, "ON_UP") = 2

\* -------------------------------------------------------------------- C3

\* The ping history alternates success, failure, success, ...
Alternating(p) == \A i \in 1..Len(p) : p[i] = (IF i % 2 = 1 THEN "rc0" ELSE "rc1")

\* C3: healthy changes from false to true only when the pings ending with the
\* current one are a run of at least healthy_after successes (and at least one);
\* a failed ping while unhealthy leaves the counter 0; and with healthy_after = 2
\* an alternating history never runs ON_UP nor is healthy after its first failure.
C3_FullRunOfSuccesses ==
    /\ [][ (~healthy /\ healthy') =>
             /\ alive
             /\ TrailingSuccesses(probes) >= 1
             /\ AtLeast(TrailingSuccesses(probes), healthy_after) ]_vars
    /\ []((pc = "sleep" /\ ~h0 /\ ~alive) => successful_checks_since_down = 0)
    /\ []((healthy_after = Num(4) /\ Alternating(probes)) =>
             /\ Count(cmds, "ON_UP") = 0
             /\ Count(cmds, "ON_DOWN") <= 1
             /\ (Len(probes) >= 2 /\ pc \in {"sleep", "probe"}) => ~healthy)

\* The second recovery with healthy_after = 3: two full runs of three successes.
C3_Witness ==
    /\ healthy_after = Num(6)
    /\ healthy /\ ~h0 /\ pc = "sleep"
    /\ Count(cmds, "ON_UP") = 2

\* An alternating history of six pings with healthy_after = 2.
C3_WitnessAlternating ==
    /\ healthy_after = Num(4) /\ Alternating(probes) /\ Len(probes) = 6 /\ pc = "sleep"

\* -------------------------------------------------------------------- C4

\* C4 as stated: whenever healthy is true the counter is 0.
C4_ZeroWhileHealthy == healthy => successful_checks_since_down = 0

\* C4 amended: the counter is 0 until the first outage and is set to 0 when the
\* unhealthy state is entered, but the recovery does not reset it: while healthy
\* it is 0 or the count that met the threshold (>= healthy_after, with the one
\* before it below the threshold or 0), kept for the whole healthy period.
C4_ZeroUntilRecovery ==
    /\ (healthy /\ cmds = <<>>) => successful_checks_since_down = 0
    /\ (healthy /\ successful_checks_since_down # 0) =>
          /\ Count(cmds, "ON_DOWN") >= 1
          /\ AtLeast(successful_checks_since_down, healthy_after)
          /\ \/ successful_checks_since_down = 1
             \/ Below(successful_checks_since_down - 1, healthy_after)
    /\ (pc = "sleep" /\ h0 /\ ~healthy) => successful_checks_since_down = 0

\* Healthy again with the count of the recovery still in place, two pings later.
C4_Witness ==
    /\ healthy /\ h0 /\ pc = "sleep" /\ alive
    /\ successful_checks_since_down = 2
    /\ Count(cmds, "ON_UP") = 1
    /\ TrailingSuccesses(probes) >= 4

\* -------------------------------------------------------------------- C5

\* C5 as stated: with healthy_after >= 1 the counter is in [0, healthy_after) at
\* every iteration boundary.
C5_BelowThresholdAtBoundary ==
    (Boundary /\ ThresholdAtLeastOne) =>
        /\ successful_checks_since_down >= 0
        /\ Below(successful_checks_since_down, healthy_after)

\* C5 amended: with healthy_after >= 1 the counter is in [0, healthy_after) at
\* every iteration boundary at which healthy is false; the count that met the
\* threshold is not held for a moment only but at every boundary of the healthy
\* period that follows, until the next ON_DOWN resets it.
C5_BelowThresholdWhileUnhealthy ==
    (Boundary /\ ThresholdAtLeastOne) =>
        /\ successful_checks_since_down >= 0
        /\ ~healthy => Below(successful_checks_since_down, healthy_after)
        /\ (healthy /\ Count(cmds, "ON_UP") >= 1) =>
              /\ AtLeast(successful_checks_since_down, healthy_after)
              /\ Below(successful_checks_since_down - 1, healthy_after)
        /\ (healthy /\ Count(cmds, "ON_UP") = 0) => successful_checks_since_down = 0

\* Unhealthy at a boundary one success short of healthy_after = 3, in the
\* second outage.
C5_Witness ==
    /\ pc = "sleep" /\ ~healthy /\ healthy_after = Num(6)
    /\ successful_checks_since_down = 2
    /\ Count(cmds, "ON_DOWN") = 2

\* -------------------------------------------------------------------- C6

\* sleep(interval) returns for this interval.
Sleepable(secs) == secs.k = "num" /\ secs.v2 >= 0

\* C6: a step in which ON_DOWN or ON_UP ends with a non-zero status leaves
\* healthy and the counter as a zero status does (unhealthy and 0 after ON_DOWN,
\* healthy and the incremented counter after ON_UP), adds that one execution and
\* takes the loop to its sleep; no command runs again before the next ping, and
\* from the sleep the loop returns to the ping whenever sleep(interval) returns.
C6_NonZeroStatusIgnored ==
    [][ /\ (pc = "shell_down" /\ shell' = "exit1") =>
              /\ pc' = "sleep" /\ err' = "none"
              /\ ~healthy' /\ successful_checks_since_down' = 0
              /\ cmds' = Append(cmds, "ON_DOWN")
        /\ (pc = "shell_up" /\ shell' = "exit1") =>
              /\ pc' = "sleep" /\ err' = "none"
              /\ healthy' /\ successful_checks_since_down' = c0 + 1
              /\ cmds' = Append(cmds, "ON_UP")
        /\ (pc = "sleep" /\ shell = "exit1") =>
              /\ UNCHANGED <<healthy, successful_checks_since_down, cmds>>
              /\ Sleepable(interval) => (pc' = "probe" /\ err' = "none") ]_vars

\* The loop is about to ping again after a command that exited non-zero.
C6_Witness ==
    /\ pc = "probe" /\ shell = "exit1" /\ LastCmd = "ON_UP" /\ healthy
    /\ Len(probes) < MaxProbes

\* -------------------------------------------------------------------- C7

\* C7: a ping that runs into its 30 s timeout counts as a failed ping (alive is
\* False) and never ends the loop.
C7_TimeoutIsAFailedPing ==
    (probes # <<>> /\ probes[Len(probes)] = "timeout") =>
        (pc # "crashed" /\ err = "none" /\ (pc = "branch" => ~alive))

\* -------------------------------------------------------------------- C8

\* HEALTHY_AFTER strings whose value is 0 or negative.
NonPositiveStrings == {<<"0">>, <<"-", "1">>}

\* C8: with HEALTHY_AFTER zero or negative the process never enters the loop:
\* no ping is invoked and no command is run.
C8_NonPositiveThresholdRejected ==
    (env.HEALTHY_AFTER.present /\ env.HEALTHY_AFTER.value \in NonPositiveStrings) =>
        /\ pc \in {"main", "crashed"}
        /\ probes = <<>>
        /\ cmds = <<>>

\* -------------------------------------------------------------------- C9

\* Strings that are no number.
NonNumericStrings == {<<"a", "b", "c">>, <<"t", "w", "o">>}

\* TARGET is missing, or INTERVAL or HEALTHY_AFTER is set to something that is
\* no number.
BadStartupConfig ==
    \/ ~env.TARGET.present
    \/ env.INTERVAL.present /\ env.INTERVAL.value \in NonNumericStrings
    \/ env.HEALTHY_AFTER.present /\ env.HEALTHY_AFTER.value \in NonNumericStrings

\* C9: with TARGET missing or INTERVAL / HEALTHY_AFTER not a number, main ends
\* with an exception before m.start(): no ping is invoked, no command is run.
C9_BadConfigFailsBeforeStart ==
    BadStartupConfig =>
        /\ pc \in {"main", "crashed"}
        /\ pc = "crashed" => err \in {"KeyError", "ValueError", "AttributeError"}
        /\ probes = <<>>
        /\ cmds = <<>>

\* main has failed on a HEALTHY_AFTER that is no number, all else being valid.
C9_Witness ==
    /\ pc = "crashed" /\ err = "ValueError"
    /\ env.TARGET.present /\ ~env.INTERVAL.present
    /\ env.HEALTHY_AFTER = Val(<<"t", "w", "o">>)
    /\ probes = <<>>

\* -------------------------------------------------------------------- C10

\* C10 as stated: with ON_DOWN or ON_UP missing the process fails at startup,
\* before the first ping is invoked.
C10_MissingCommandFailsAtStartup ==
    (~env.ON_DOWN.present \/ ~env.ON_UP.present) =>
        /\ pc \in {"main", "crashed"}
        /\ probes = <<>>

\* C10 amended: a missing ON_DOWN or ON_UP is not noticed at startup; it
\* surfaces as a KeyError that ends the loop in the iteration that first needs
\* the command, so after at least one ping: for ON_DOWN the first failed ping
\* while healthy (healthy is still true), for ON_UP the successful ping whose
\* count reaches healthy_after (healthy is already true again).
C10_MissingCommandFailsWhenNeeded ==
    /\ (pc = "crashed" /\ err = "KeyError" /\ env.TARGET.present) =>
          /\ Len(probes) >= 1
          /\ healthy
          /\ \/ h0 /\ ~alive /\ ~env.ON_DOWN.present /\ probes[Len(probes)] = "rc1"
             \/ /\ ~h0 /\ alive /\ ~env.ON_UP.present /\ probes[Len(probes)] = "rc0"
                /\ AtLeast(successful_checks_since_down, healthy_after)
    /\ (pc = "sleep" /\ h0 /\ ~alive) => env.ON_DOWN.present
    /\ (pc = "sleep" /\ ~h0 /\ healthy) => env.ON_UP.present
    /\ ~env.ON_DOWN.present => (cmds = <<>> /\ healthy)
    /\ ~env.ON_UP.present => Count(cmds, "ON_UP") = 0

\* ON_UP is missing: the loop has ended at the recovery after five pings.
C10_Witness ==
    /\ pc = "crashed" /\ err = "KeyError"
    /\ env.ON_DOWN.present /\ ~env.ON_UP.present
    /\ healthy /\ ~h0 /\ Len(probes) = 5 /\ cmds = <<"ON_DOWN">>

\* -------------------------------------------------------------------- C11

\* C11: start(block=False) and stop, called with the Monitor in any state, end
\* in NotImplementedError, and the call invokes no ping, runs no command and
\* leaves healthy and the counter as they were.
C11_UnsupportedCallsFail ==
    [][ (pc \in {"start_nonblocking", "stop"}) =>
           /\ pc' = "crashed"
           /\ err' = "NotImplementedError"
           /\ UNCHANGED <<healthy, successful_checks_since_down, probes, cmds>> ]_vars

\* stop or start(block=False) has failed on a Monitor that is unhealthy with one
\* success counted, after the loop had ended on a ping that could not be run.
C11_Witness ==
    /\ pc = "crashed" /\ err = "NotImplementedError"
    /\ ~healthy /\ successful_checks_since_down = 1
    /\ probes # <<>> /\ probes[Len(probes)] = "oserror"

\* -------------------------------------------------------------------- C12

FailFailThreeSuccesses == <<"rc1", "rc1", "rc0", "rc0", "rc0">>

IsPrefix(p, q) == Len(p) <= Len(q) /\ SubSeq(q, 1, Len(p)) = p

\* C13: with healthy_after = 3 and the pings fail, fail, success, success,
\* success from the healthy start, the iterations end: unhealthy with ON_DOWN
\* just run; unhealthy, nothing run; the same with the counter 1 and 2; healthy
\* with ON_UP just run.  ON_DOWN and ON_UP have then run once each.
C13_FailFailThreeSuccesses ==
    (/\ healthy_after = Num(6)
     /\ pc = "sleep"
     /\ probes # <<>>
     /\ IsPrefix(probes, FailFailThreeSuccesses)) =>
        /\ healthy = (Len(probes) = 5)
        /\ cmds = (IF Len(probes) = 5 THEN <<"ON_DOWN", "ON_UP">> ELSE <<"ON_DOWN">>)
        /\ (shell # "none") = (Len(probes) \in {1, 5})
        /\ successful_checks_since_down = (IF Len(probes) <= 2 THEN 0 ELSE Len(probes) - 2)

\* The end of the fifth iteration of that run.
C13_Witness ==
    /\ healthy_after = Num(6) /\ pc = "sleep"
    /\ probes = FailFailThreeSuccesses
    /\ healthy /\ cmds = <<"ON_DOWN", "ON_UP">>

\* -------------------------------------------------------------------- C14

\* C14: with healthy_after = 1 an iteration that began unhealthy and whose ping
\* succeeded has made the Monitor healthy and run ON_UP by its end, and is
\* healthy already while ON_UP runs.
C14_OneSuccessSuffices ==
    (healthy_after = Num(2) /\ ~h0 /\ alive) =>
        /\ pc # "sleep" \/ (healthy /\ LastCmd = "ON_UP" /\ shell \in {"exit0", "exit1"})
        /\ pc = "shell_up" => healthy

\* Such an iteration has ended.
C14_Witness ==
    /\ healthy_after = Num(2) /\ ~h0 /\ alive /\ pc = "sleep"
    /\ healthy /\ cmds = <<"ON_DOWN", "ON_UP">>

\* -------------------------------------------------------------------- C15

\* C15: a ping that cannot be invoked (the call raises OSError) ends the loop
\* with that error: in the step healthy, the counter and the commands run stay
\* as they are, and afterwards the process does nothing more, so no further ping
\* is invoked and no command is run.
C15_ProbeInvocationErrorIsFatal ==
    /\ [][ (probes' = Append(probes, "oserror")) =>
              /\ pc' = "crashed" /\ err' = "OSError"
              /\ UNCHANGED <<healthy, successful_checks_since_down, cmds>> ]_vars
    /\ []((probes # <<>> /\ probes[Len(probes)] = "oserror") =>
              /\ pc = "crashed" /\ err = "OSError"
              /\ healthy = h0 /\ successful_checks_since_down = c0
              /\ shell = "none"
              /\ ~ENABLED Next)

\* The loop has ended on a ping that could not be invoked, in the second outage.
C15_Witness ==
    /\ pc = "crashed" /\ err = "OSError"
    /\ probes # <<>> /\ probes[Len(probes)] = "oserror"
    /\ ~healthy /\ successful_checks_since_down = 1 /\ Count(cmds, "ON_DOWN") = 2

\* -------------------------------------------------------------------- C16

\* The Monitor was started with a configuration the loop can run with for ever:
\* main has built it, the interval is one sleep accepts, both commands are set.
RunnableConfig ==
    /\ Sleepable(interval)
    /\ env.ON_DOWN.present
    /\ env.ON_UP.present

\* C16: started with such a configuration, the loop ends only on a ping that
\* does not return a result (it raises) or a command that cannot be run; and
\* from every point of an iteration whose ping has returned, the loop comes
\* back to its top to ping again unless the command cannot be run, whatever the
\* results of the pings and the exit statuses of the commands.
C16_LoopNeverEnds ==
    /\ []((RunnableConfig /\ pc = "crashed") =>
             \/ probes # <<>> /\ probes[Len(probes)] \in {"timeout", "oserror"}
             \/ shell = "oserror")
    /\ (RunnableConfig /\ pc \in {"start", "branch", "shell_down", "shell_up", "sleep"})
          ~> (pc = "probe" \/ shell = "oserror")

\* The loop is at its top again after eight iterations and four commands, the
\* last of which exited non-zero.
C16_Witness ==
    /\ RunnableConfig /\ pc = "probe"
    /\ Len(probes) = 8 /\ Len(cmds) = 4 /\ shell = "exit1"

\* -------------------------------------------------------------------- C17

\* C17: between iterations, while unhealthy, the counter is the number of
\* successful pings since the last failed one.
C17_CounterIsTrailingRun ==
    (Boundary /\ ~healthy) => successful_checks_since_down = TrailingSuccesses(probes)

\* Two successes into the second outage, with healthy_after = 3.
C17_Witness ==
    /\ pc = "sleep" /\ ~healthy /\ healthy_after = Num(6)
    /\ TrailingSuccesses(probes) = 2 /\ Count(cmds, "ON_DOWN") = 2

\* -------------------------------------------------------------------- C18

\* C18 as stated: while a command runs the new state is already stored
\* (unhealthy and counter 0 during ON_DOWN, healthy during ON_UP), and a
\* command that cannot be started leaves the new state in place.
C18_StateStoredBeforeCommand ==
    /\ pc = "shell_down" => (~healthy /\ successful_checks_since_down = 0)
    /\ pc = "shell_up" => healthy
    /\ (pc = "crashed" /\ shell = "oserror") => healthy = ~h0

\* C18 amended: healthy = true is stored before ON_UP runs, but ON_DOWN runs
\* with the old state still stored (healthy true, the counter untouched);
\* healthy = false and counter = 0 are stored when ON_DOWN has returned, whatever
\* its exit status.  An ON_UP that cannot be started leaves the new state
\* (healthy) in place; an ON_DOWN that cannot be started ends the loop with the
\* old state (healthy) in place.
C18_StateStoredAroundCommand ==
    /\ pc = "shell_up" => (healthy /\ ~h0 /\ successful_checks_since_down = c0 + 1)
    /\ pc = "shell_down" => (healthy /\ h0 /\ successful_checks_since_down = c0)
    /\ (pc = "sleep" /\ shell \in {"exit0", "exit1"} /\ h0) =>
          (~healthy /\ successful_checks_since_down = 0 /\ LastCmd = "ON_DOWN")
    /\ (pc = "sleep" /\ shell \in {"exit0", "exit1"} /\ ~h0) =>
          (healthy /\ LastCmd = "ON_UP")
    /\ (pc = "crashed" /\ shell = "oserror") =>
          (healthy /\ (h0 => successful_checks_since_down = c0))

\* ON_DOWN is running for the second outage: healthy is still true and the
\* counter still holds the count of the last recovery.
C18_Witness ==
    /\ pc = "shell_down" /\ healthy /\ successful_checks_since_down = 2
    /\ cmds = <<"ON_DOWN", "ON_UP">>

\* -------------------------------------------------------------------- C19

\* C19: the commands run are ON_DOWN, ON_UP, ON_DOWN, ... in turn, beginning
\* with ON_DOWN; between iterations ON_DOWN has run once more than ON_UP while
\* unhealthy and as often while healthy.
C19_CommandsAlternate ==
    /\ \A i \in 1..Len(cmds) : cmds[i] = (IF i % 2 = 1 THEN "ON_DOWN" ELSE "ON_UP")
    /\ Boundary =>
          Count(cmds, "ON_DOWN") - Count(cmds, "ON_UP") = (IF healthy THEN 0 ELSE 1)

\* Two outages and two recoveries.
C19_Witness ==
    /\ pc = "sleep" /\ healthy
    /\ cmds = <<"ON_DOWN", "ON_UP", "ON_DOWN", "ON_UP">>

\* -------------------------------------------------------------------- C20

\* healthy_after is a finite number >= 1.
FiniteThresholdAtLeastOne == healthy_after.k = "num" /\ healthy_after.v2 >= 2

\* C20 as stated: with healthy_after >= 1 the Monitor cannot stay unhealthy
\* under continuous success (some finite count of successes meets the
\* threshold, and the Monitor is not unhealthy between iterations once the run
\* of successes has met it), and it recovers after exactly healthy_after
\* successes since the last failure.
C20_RecoversAfterExactlyThreshold ==
    ThresholdAtLeastOne =>
        /\ healthy_after.k = "num"
        /\ (Boundary /\ ~healthy) => Below(TrailingSuccesses(probes), healthy_after)
        /\ (pc = "sleep" /\ ~h0 /\ healthy) => healthy_after = Num(2 * TrailingSuccesses(probes))

\* C20 amended: with a finite healthy_after >= 1 the Monitor is never unhealthy
\* between iterations once the run of successes since the last failure has met
\* healthy_after; it recovers, and runs ON_UP, in the iteration of the n-th
\* success of that run, n the smallest whole number >= healthy_after (which is
\* healthy_after only if that is whole); and once a ping of an unhealthy
\* Monitor has brought the run to the threshold, the Monitor does become
\* healthy and ON_UP is run unless it cannot be started.  With healthy_after
\* infinite the Monitor never recovers.
C20_RecoversAtThreshold ==
    /\ [](FiniteThresholdAtLeastOne =>
            /\ (Boundary /\ ~healthy) => Below(TrailingSuccesses(probes), healthy_after)
            /\ (pc = "sleep" /\ ~h0 /\ healthy) =>
                  /\ AtLeast(TrailingSuccesses(probes), healthy_after)
                  /\ Below(TrailingSuccesses(probes) - 1, healthy_after)
                  /\ LastCmd = "ON_UP" /\ shell \in {"exit0", "exit1"})
    /\ [](healthy_after.k = "inf" =>
            /\ Count(cmds, "ON_UP") = 0
            /\ (Boundary /\ cmds # <<>>) => ~healthy)
    /\ (/\ FiniteThresholdAtLeastOne /\ env.ON_UP.present
        /\ pc = "branch" /\ ~healthy /\ alive
        /\ AtLeast(TrailingSuccesses(probes), healthy_after))
          ~> (healthy /\ (LastCmd = "ON_UP" \/ shell = "oserror"))

\* HEALTHY_AFTER=2.5: recovered at the third success in a row.
C20_Witness ==
    /\ healthy_after = Num(5) /\ pc = "sleep" /\ ~h0 /\ healthy
    /\ TrailingSuccesses(probes) = 3 /\ LastCmd = "ON_UP"

====
